---- MODULE Spec2Model ----
(***************************************************************************)
(* Model of nequip's normalisation-and-loss core:                          *)
(*   nequip/model/_scaling.py  _compute_stats, RescaleEnergyEtc,           *)
(*                             PerSpeciesRescale                           *)
(*   nequip/train/_loss.py     PerAtomLoss, PerSpeciesLoss,                *)
(*                             find_loss_function                          *)
(* Every operation is a function of its arguments.  The state is the last  *)
(* call: which operation ran (op), its arguments (args) and its outcome    *)
(* (ret): the returned value or the raised error, together with the        *)
(* requests it passed to the statistics backend.                           *)
(***************************************************************************)
EXTENDS Integers, Sequences, FiniteSets, TLC

VARIABLES op, args, ret

vars == <<op, args, ret>>

(***************************************************************************)
(* Python strings.  TLC's Len, SubSeq and \o act on strings as on          *)
(* sequences of characters.                                                *)
(***************************************************************************)
startswith(s, p) == Len(s) >= Len(p) /\ SubSeq(s, 1, Len(p)) = p

endswith(s, p) == Len(s) >= Len(p) /\ SubSeq(s, Len(s) - Len(p) + 1, Len(s)) = p

\* s[n:]
DropFirst(s, n) == IF n >= Len(s) THEN "" ELSE SubSeq(s, n + 1, Len(s))

\* position of the last "_" of s, 0 when s has none
RECURSIVE LastUnderscoreFrom(_, _)
LastUnderscoreFrom(s, i) ==
    IF i = 0 THEN 0
    ELSE IF SubSeq(s, i, i) = "_" THEN i
    ELSE LastUnderscoreFrom(s, i - 1)

LastUnderscore(s) == LastUnderscoreFrom(s, Len(s))

\* name.split("_")[-1]
SplitLast(s) == DropFirst(s, LastUnderscore(s))

\* "_".join(name.split("_")[:-1])
SplitInit(s) ==
    IF LastUnderscore(s) <= 1 THEN "" ELSE SubSeq(s, 1, LastUnderscore(s) - 1)

\* list.index(x): the first position of x (1-based here)
RECURSIVE IndexFrom(_, _, _)
IndexFrom(xs, x, i) ==
    IF i > Len(xs) THEN 0
    ELSE IF xs[i] = x THEN i
    ELSE IndexFrom(xs, x, i + 1)

index(xs, x) == IndexFrom(xs, x, 1)

InList(xs, x) == \E i \in 1..Len(xs) : xs[i] = x

(***************************************************************************)
(* Python values of the kinds the configurators test with isinstance.      *)
(* Numbers are exact multiples of 1e-7, so that 1e-6 is 10 and 1.0 is      *)
(* 10000000; a tensor or list holds a sequence of numbers.                 *)
(***************************************************************************)
None == [kind |-> "None"]
Str(s) == [kind |-> "str", s |-> s]
Float(x) == [kind |-> "float", v |-> <<x>>]
IntV(x) == [kind |-> "int", v |-> <<x>>]
ListV(xs) == [kind |-> "list", v |-> xs]
Tensor(xs) == [kind |-> "Tensor", v |-> xs]
Bool(b) == [kind |-> "bool", b |-> b]
Dict == [kind |-> "dict"]

isinstance(value, k) == value.kind = k

RESCALE_THRESHOLD == 10

(***************************************************************************)
(* The statistics backend, dataset.statistics: one result tuple per        *)
(* (field, mode) request, (primary, secondary) for a mean_std mode and     *)
(* (primary,) for rms.  A dataset is a pair of numbers <<a, b>>; the value *)
(* of a statistic is a scalar tensor, or one entry per species for a       *)
(* per_species_ mode.  Each result carries the request and slot it is the  *)
(* answer to.                                                              *)
(***************************************************************************)
StatTensor(dataset, field, mode, slot) ==
    [kind |-> "Tensor",
     v |-> IF startswith(mode, "per_species_")
           THEN <<dataset[slot + 1], dataset[2 - slot]>>
           ELSE <<dataset[slot + 1]>>,
     of |-> <<field, mode, slot>>]

statistics(dataset, fields, modes, stride, kwargs) ==
    [i \in 1..Len(fields) |->
        IF endswith(modes[i], "mean_std")
        THEN <<StatTensor(dataset, fields[i], modes[i], 0),
               StatTensor(dataset, fields[i], modes[i], 1)>>
        ELSE <<StatTensor(dataset, fields[i], modes[i], 0)>>]

(***************************************************************************)
(* _compute_stats                                                          *)
(***************************************************************************)
tuple_id_map(stat) == CASE stat = "mean" -> 0 [] stat = "std" -> 1 [] stat = "rms" -> 0

\* name with the "dataset_" prefix removed
StripDataset(name) ==
    IF startswith(name, "dataset_") THEN DropFirst(name, Len("dataset_")) ELSE name

ScopePrefix(name) ==
    IF startswith(name, "per_species_") THEN "per_species_"
    ELSE IF startswith(name, "per_atom_") THEN "per_atom_"
    ELSE ""

\* the parse of one identifier: prefix, stat, field
ParseName(name) ==
    LET n1 == StripDataset(name)
        prefix == ScopePrefix(n1)
        n2 == DropFirst(n1, Len(prefix))
    IN [prefix |-> prefix, stat |-> SplitLast(n2), field |-> SplitInit(n2)]

StatMode(p) ==
    IF p.stat \in {"mean", "std"} THEN p.prefix \o "mean_std" ELSE p.prefix \o "rms"

\* the key under which requests are deduplicated
StatStr(p) ==
    IF p.stat \in {"mean", "std"}
    THEN p.field \o p.prefix \o "mean_std"
    ELSE p.field \o p.prefix \o "rms"

EmptyAcc ==
    [stat_modes |-> <<>>, stat_fields |-> <<>>, stat_strs |-> <<>>, ids |-> <<>>,
     tuple_ids |-> <<>>, input_kwargs |-> <<>>, err |-> "", offending |-> ""]

\* one round of the loop over str_names
ParseStep(acc, name, kwargs) ==
    LET p == ParseName(name)
        stat_mode == StatMode(p)
        stat_str == StatStr(p)
    IN IF p.stat \notin {"mean", "std", "rms"}
       THEN [acc EXCEPT !.err = "ValueError: Cannot handle type quantity",
                        !.offending = p.stat]
       ELSE IF InList(acc.stat_strs, stat_str)
       THEN [acc EXCEPT !.ids = Append(@, index(acc.stat_strs, stat_str) - 1),
                        !.tuple_ids = Append(@, tuple_id_map(p.stat))]
       ELSE [acc EXCEPT !.ids = Append(@, Len(acc.stat_strs)),
                        !.stat_strs = Append(@, stat_str),
                        !.stat_modes = Append(@, stat_mode),
                        !.stat_fields = Append(@, p.field),
                        !.input_kwargs =
                            IF startswith(stat_mode, "per_species_")
                               /\ p.field \in DOMAIN kwargs
                            THEN ((p.field \o stat_mode) :> kwargs[p.field]) @@ @
                            ELSE @,
                        !.tuple_ids = Append(@, tuple_id_map(p.stat))]

RECURSIVE ParseNames(_, _, _, _)
ParseNames(str_names, i, acc, kwargs) ==
    IF i > Len(str_names) \/ acc.err # "" THEN acc
    ELSE ParseNames(str_names, i + 1, ParseStep(acc, str_names[i], kwargs), kwargs)

\* the outcome of _compute_stats: the error raised, or the backend request
\* made (calls) and the list returned (value)
compute_stats(str_names, dataset, stride, kwargs) ==
    LET acc == ParseNames(str_names, 1, EmptyAcc, kwargs)
        call == [fields |-> acc.stat_fields, modes |-> acc.stat_modes,
                 stride |-> stride, kwargs |-> acc.input_kwargs]
        values == statistics(dataset, call.fields, call.modes, call.stride, call.kwargs)
    IN IF acc.err # ""
       THEN [err |-> acc.err, offending |-> acc.offending, calls |-> <<>>]
       ELSE [err |-> "", calls |-> <<call>>,
             value |-> [i \in 1..Len(acc.ids) |->
                            values[acc.ids[i] + 1][acc.tuple_ids[i] + 1]]]

(***************************************************************************)
(* Configuration: a mapping from option names to values.                   *)
(***************************************************************************)
\* config.get(key, default)
get(config, key, default) == IF key \in DOMAIN config THEN config[key] ELSE default

\* 1.0, in the unit in which RESCALE_THRESHOLD (1e-6) is 10
One == RESCALE_THRESHOLD * 1000000

FORCE_KEY == "forces"
TOTAL_ENERGY_KEY == "total_energy"
PER_ATOM_ENERGY_KEY == "atomic_energy"
STRESS_KEY == "stress"

\* [k for k in keys if k in irreps_out]
RECURSIVE FilterKeys(_, _)
FilterKeys(keys, present) ==
    IF keys = <<>> THEN <<>>
    ELSE IF Head(keys) \in present
         THEN <<Head(keys)>> \o FilterKeys(Tail(keys), present)
         ELSE FilterKeys(Tail(keys), present)

\* the str values among [scale, shift], in that order
StrNames(values) ==
    LET strs == SelectSeq(values, LAMBDA value : isinstance(value, "str"))
    IN [i \in 1..Len(strs) |-> strs[i].s]

\* the first value of [scale, shift] that the isinstance chain rejects
FirstInvalid(values, valid_kinds) ==
    LET bad == SelectSeq(values, LAMBDA value : value.kind \notin valid_kinds)
    IN IF bad = <<>> THEN None ELSE Head(bad)

HasInvalid(values, valid_kinds) ==
    \E i \in 1..Len(values) : values[i].kind \notin valid_kinds

\* a str value replaced by its computed statistic, any other value kept
Resolve(value, str_names, computed_stats) ==
    IF isinstance(value, "str")
    THEN computed_stats[index(str_names, value.s)]
    ELSE value

RECURSIVE MinOf(_)
MinOf(xs) ==
    IF Len(xs) = 1 THEN xs[1]
    ELSE IF xs[1] <= MinOf(Tail(xs)) THEN xs[1] ELSE MinOf(Tail(xs))

\* the comparison made inclusive
BelowThresholdInclusive(scale) == scale.v[1] <= RESCALE_THRESHOLD

\* global_scale < RESCALE_THRESHOLD, on a scalar
BelowThreshold(scale) == scale.v[1] < RESCALE_THRESHOLD

(***************************************************************************)
(* RescaleEnergyEtc                                                        *)
(***************************************************************************)
GlobalValidKinds == {"str", "None", "float", "Tensor"}

GlobalDefaultScale(model) ==
    IF FORCE_KEY \in model.irreps_out
    THEN Str("dataset_" \o FORCE_KEY \o "_rms")
    ELSE Str("dataset_" \o TOTAL_ENERGY_KEY \o "_std")

\* the RescaleOutput built at the end
RescaleOutput(model, config, global_scale, global_shift) ==
    [model |-> model,
     scale_keys |-> FilterKeys(<<TOTAL_ENERGY_KEY, PER_ATOM_ENERGY_KEY, FORCE_KEY,
                                 STRESS_KEY>>, model.irreps_out),
     scale_by |-> global_scale,
     shift_keys |-> FilterKeys(<<TOTAL_ENERGY_KEY>>, model.irreps_out),
     shift_by |-> global_shift,
     shift_trainable |-> get(config, "global_rescale_shift_trainable", Bool(FALSE)),
     scale_trainable |-> get(config, "global_rescale_scale_trainable", Bool(FALSE))]

\* lines 63-108: the statistics are in; replace, test the threshold, build
GlobalFinish(model, config, warned, scale, shift, calls) ==
    IF scale # None /\ BelowThreshold(scale)
    THEN [err |-> "ValueError: Global energy scaling was very low",
          offending |-> scale, warned |-> warned, calls |-> calls]
    ELSE [err |-> "", warned |-> warned, calls |-> calls,
          rescale |-> RescaleOutput(model, config, scale, shift)]

\* lines 57-70: _compute_stats has returned stats for str_names
GlobalResolve(model, config, warned, global_scale, global_shift, str_names, stats) ==
    IF stats.err # ""
    THEN [err |-> stats.err, stat |-> stats.offending, warned |-> warned,
          calls |-> <<>>]
    ELSE GlobalFinish(model, config, warned,
                      Resolve(global_scale, str_names, stats.value),
                      Resolve(global_shift, str_names, stats.value), stats.calls)

\* lines 41-61: the initialize branch
GlobalInitialize(model, config, dataset, warned, global_scale, global_shift, values) ==
    IF HasInvalid(values, GlobalValidKinds)
    THEN [err |-> "ValueError: Invalid global scale",
          offending |-> FirstInvalid(values, GlobalValidKinds),
          warned |-> warned, calls |-> <<>>]
    ELSE GlobalResolve(model, config, warned, global_scale, global_shift,
                       StrNames(values),
                       compute_stats(StrNames(values), dataset,
                                     config["dataset_statistics_stride"], <<>>))

\* lines 81-86: dummy values
GlobalDummy(model, config, warned, global_scale, global_shift) ==
    [err |-> "", warned |-> warned, calls |-> <<>>,
     rescale |-> RescaleOutput(model, config,
                    IF global_scale # None THEN Float(One) ELSE None,
                    IF global_shift # None THEN Float(0) ELSE None)]

GlobalBranch(model, config, dataset, initialize, global_scale, global_shift) ==
    IF initialize
    THEN GlobalInitialize(model, config, dataset, global_shift # None,
                          global_scale, global_shift, <<global_scale, global_shift>>)
    ELSE GlobalDummy(model, config, global_shift # None, global_scale, global_shift)

RescaleEnergyEtc(model, config, dataset, initialize) ==
    GlobalBranch(model, config, dataset, initialize,
                 get(config, "global_rescale_scale", GlobalDefaultScale(model)),
                 get(config, "global_rescale_shift", None))

(***************************************************************************)
(* PerSpeciesRescale                                                       *)
(***************************************************************************)
PerSpeciesValidKinds == {"str", "None", "float", "list", "Tensor"}

PerSpeciesDefaultScales(config) ==
    IF FORCE_KEY \in get(config, "train_on_keys", [kind |-> "keys", keys |-> {}]).keys
    THEN Str("dataset_" \o FORCE_KEY \o "_rms")
    ELSE Str("dataset_per_atom_" \o TOTAL_ENERGY_KEY \o "_std")

PerSpeciesDefaultShifts == Str("dataset_per_atom_" \o TOTAL_ENERGY_KEY \o "_mean")

\* the option the unit declaration is read from: module_prefix + "arguments_in_dataset_units"
UnitsOption == "per_species_rescale" \o "arguments_in_dataset_units"

\* torch.as_tensor of a list or float; other values unchanged
as_tensor(value) ==
    IF value.kind \in {"list", "float"} THEN Tensor(value.v) ELSE value

\* the stage handed to model.insert_from_parameters
InsertedStage(shifts, scales, arguments_in_dataset_units) ==
    [before |-> "total_energy_sum",
     name |-> "per_species_rescale",
     builder |-> "PerSpeciesScaleShift",
     params |-> [field |-> PER_ATOM_ENERGY_KEY,
                 out_field |-> PER_ATOM_ENERGY_KEY,
                 shifts |-> shifts,
                 scales |-> scales,
                 arguments_in_dataset_units |-> arguments_in_dataset_units]]

\* lines 172-219: replace, convert, test the threshold, insert the stage
SpeciesFinish(model, scales, shifts, arguments_in_dataset_units, calls) ==
    IF scales # None /\ MinOf(scales.v) < RESCALE_THRESHOLD
    THEN [err |-> "ValueError: Per species energy scaling was very low",
          offending |-> scales, calls |-> calls]
    ELSE [err |-> "", calls |-> calls, model |-> model,
          inserted |-> InsertedStage(shifts, scales, arguments_in_dataset_units)]

\* lines 165-184: _compute_stats has returned stats for str_names
SpeciesResolve(model, scales, shifts, str_names, stats) ==
    IF stats.err # ""
    THEN [err |-> stats.err, stat |-> stats.offending, calls |-> <<>>]
    ELSE SpeciesFinish(model,
                       as_tensor(Resolve(scales, str_names, stats.value)),
                       as_tensor(Resolve(shifts, str_names, stats.value)),
                       IF Len(str_names) = 2 THEN Bool(TRUE) ELSE None,
                       stats.calls)

\* lines 156-170: the unit declaration, then the statistics
SpeciesUnits(model, config, dataset, scales, shifts, str_names) ==
    IF Len(str_names) = 1 /\ UnitsOption \notin DOMAIN config
    THEN [err |-> "KeyError", key |-> UnitsOption, calls |-> <<>>]
    ELSE IF Len(str_names) = 1 /\ ~config[UnitsOption].b
    THEN [err |-> "AssertionError: set per_species_rescale_arguments_in_dataset_units",
          calls |-> <<>>]
    ELSE SpeciesResolve(model, scales, shifts, str_names,
                        compute_stats(str_names, dataset,
                                      config["dataset_statistics_stride"],
                                      get(config, "per_species_rescale_kwargs", <<>>)))

\* lines 140-154: the initialize branch
SpeciesInitialize(model, config, dataset, scales, shifts, values) ==
    IF HasInvalid(values, PerSpeciesValidKinds)
    THEN [err |-> "ValueError: Invalid value",
          offending |-> FirstInvalid(values, PerSpeciesValidKinds),
          calls |-> <<>>]
    ELSE SpeciesUnits(model, config, dataset, scales, shifts, StrNames(values))

\* lines 191-202: dummy values
SpeciesDummy(model) ==
    [err |-> "", calls |-> <<>>, model |-> model,
     inserted |-> InsertedStage(Float(0), Float(One), Bool(FALSE))]

SpeciesBranch(model, config, dataset, initialize, scales, shifts) ==
    IF initialize
    THEN SpeciesInitialize(model, config, dataset, scales, shifts, <<scales, shifts>>)
    ELSE SpeciesDummy(model)

PerSpeciesRescale(model, config, dataset, initialize) ==
    SpeciesBranch(model, config, dataset, initialize,
                  get(config, "per_species_rescale_scales",
                      PerSpeciesDefaultScales(config)),
                  get(config, "per_species_rescale_shifts", PerSpeciesDefaultShifts))

(***************************************************************************)
(* Floating-point values of the loss tensors: an exact non-negative        *)
(* fraction n/d in lowest terms, +inf, or NaN, with the IEEE rules for     *)
(* the operations on inf and NaN.                                          *)
(***************************************************************************)
RECURSIVE GCD(_, _)
GCD(a, b) == IF b = 0 THEN a ELSE GCD(b, a % b)

Fin(n, d) == [k |-> "fin", n |-> n \div GCD(n, d), d |-> d \div GCD(n, d)]
NaN == [k |-> "nan", n |-> 0, d |-> 0]
Inf == [k |-> "inf", n |-> 1, d |-> 0]
Num(x) == Fin(x, 1)

isnan(a) == a.k = "nan"

FAdd(a, b) ==
    IF isnan(a) \/ isnan(b) THEN NaN
    ELSE IF a.k = "inf" \/ b.k = "inf" THEN Inf
    ELSE Fin(a.n * b.d + b.n * a.d, a.d * b.d)

FMul(a, b) ==
    IF isnan(a) \/ isnan(b) THEN NaN
    ELSE IF a.k = "inf" THEN (IF b.k = "fin" /\ b.n = 0 THEN NaN ELSE Inf)
    ELSE IF b.k = "inf" THEN (IF a.n = 0 THEN NaN ELSE Inf)
    ELSE Fin(a.n * b.n, a.d * b.d)

FDiv(a, b) ==
    IF isnan(a) \/ isnan(b) THEN NaN
    ELSE IF a.k = "inf" THEN (IF b.k = "inf" THEN NaN ELSE Inf)
    ELSE IF b.k = "inf" THEN Num(0)
    ELSE IF b.n = 0 THEN (IF a.n = 0 THEN NaN ELSE Inf)
    ELSE Fin(a.n * b.d, a.d * b.n)

RECURSIVE FSum(_)
FSum(xs) == IF xs = <<>> THEN Num(0) ELSE FAdd(Head(xs), FSum(Tail(xs)))

\* tensor.mean() of a flat list
FMean(xs) == FDiv(FSum(xs), Num(Len(xs)))

(***************************************************************************)
(* Tensors of shape [row, component]: a sequence of rows, each a sequence  *)
(* of values.                                                              *)
(***************************************************************************)
\* all entries, row after row
RECURSIVE Flatten(_)
Flatten(t) == IF t = <<>> THEN <<>> ELSE Head(t) \o Flatten(Tail(t))

\* the elementwise function torch.nn.<func_name>(reduction="none")
Elementwise(func_name, p, r) ==
    IF isnan(p) \/ isnan(r) THEN NaN
    ELSE IF func_name = "MSELoss"
    THEN Num((p.n - r.n) * (p.n - r.n))
    ELSE Num(IF p.n >= r.n THEN p.n - r.n ELSE r.n - p.n)

\* (ref == ref).int()
NotNan(ref) == [i \in 1..Len(ref) |-> [c \in 1..Len(ref[i]) |->
                    IF isnan(ref[i][c]) THEN 0 ELSE 1]]

\* torch.nan_to_num(ref, nan=0.0)
nan_to_num(ref) == [i \in 1..Len(ref) |-> [c \in 1..Len(ref[i]) |->
                    IF isnan(ref[i][c]) THEN Num(0) ELSE ref[i][c]]]

\* self.func(pred, nan_to_num(ref)) * not_nan
MaskedLoss(func_name, pred, ref) ==
    [i \in 1..Len(ref) |-> [c \in 1..Len(ref[i]) |->
        FMul(Elementwise(func_name, pred[i][c], nan_to_num(ref)[i][c]),
             Num(NotNan(ref)[i][c]))]]

\* self.func(pred, ref)
PlainLoss(func_name, pred, ref) ==
    [i \in 1..Len(ref) |-> [c \in 1..Len(ref[i]) |->
        Elementwise(func_name, pred[i][c], ref[i][c])]]

RECURSIVE IntSum(_)
IntSum(xs) == IF xs = <<>> THEN 0 ELSE Head(xs) + IntSum(Tail(xs))

RECURSIVE MaxOf(_)
MaxOf(xs) ==
    IF Len(xs) = 1 THEN xs[1]
    ELSE IF xs[1] >= MaxOf(Tail(xs)) THEN xs[1] ELSE MaxOf(Tail(xs))

\* the positions of xs that hold x
Where(xs, x) == SelectSeq([i \in 1..Len(xs) |-> i], LAMBDA i : xs[i] = x)

\* torch.bincount(batch): the number of atoms of each graph 0..max(batch)
bincount(batch) ==
    [g \in 1..(MaxOf(batch) + 1) |-> Len(Where(batch, g - 1))]

(***************************************************************************)
(* PerAtomLoss.__call__                                                    *)
(***************************************************************************)
GRAPH_FIELDS == {TOTAL_ENERGY_KEY, STRESS_KEY}

\* loss / N, without the second division
DivideOnce(loss, N, func_name) ==
    [g \in 1..Len(loss) |-> [c \in 1..Len(loss[g]) |-> FDiv(loss[g][c], Num(N[g]))]]

\* loss / N, and / N again for MSELoss
DivideByAtoms(loss, N, func_name) ==
    [g \in 1..Len(loss) |-> [c \in 1..Len(loss[g]) |->
        IF func_name = "MSELoss"
        THEN FDiv(FDiv(loss[g][c], Num(N[g])), Num(N[g]))
        ELSE FDiv(loss[g][c], Num(N[g]))]]

PerAtomReduce(loss, mean, denominator) ==
    IF mean
    THEN [err |-> "", mean |-> FDiv(FSum(Flatten(loss)), denominator)]
    ELSE [err |-> "", loss |-> loss]

PerAtomLoss(func_name, ignore_nan, pred, ref, batch, key, mean) ==
    IF key \notin GRAPH_FIELDS
    THEN [err |-> "RuntimeError: not a graph field"]
    ELSE IF ignore_nan /\ isnan(FSum(Flatten(ref)))
    THEN PerAtomReduce(DivideByAtoms(MaskedLoss(func_name, pred, ref),
                                     bincount(batch), func_name),
                       mean, Num(IntSum(Flatten(NotNan(ref)))))
    ELSE PerAtomReduce(DivideByAtoms(PlainLoss(func_name, pred, ref),
                                     bincount(batch), func_name),
                       mean, Num(Len(Flatten(ref))))

(***************************************************************************)
(* PerSpeciesLoss.__call__                                                 *)
(***************************************************************************)
\* scatter(src, index, dim=0) of a 1-d src: the sum per slot 0..max(index)
scatter(src, idx) ==
    [t \in 1..(MaxOf(idx) + 1) |->
        FSum([j \in 1..Len(Where(idx, t - 1)) |-> src[Where(idx, t - 1)[j]]])]

\* scatter_mean(src, index, dim=0): the mean per slot, 0 for an empty slot
scatter_mean(src, idx) ==
    [t \in 1..(MaxOf(idx) + 1) |->
        IF Where(idx, t - 1) = <<>> THEN Num(0)
        ELSE FMean([j \in 1..Len(Where(idx, t - 1)) |-> src[Where(idx, t - 1)[j]]])]

\* the species index used as it is
RawIndex(spe_idx) == spe_idx

\* torch.unique(spe_idx, return_inverse=True)[1]: each label's rank among
\* the distinct labels
InverseIndex(spe_idx) ==
    [i \in 1..Len(spe_idx) |->
        Cardinality({spe_idx[j] : j \in 1..Len(spe_idx)} \cap 0..(spe_idx[i] - 1))]

\* lines 161-173
PerSpeciesPlain(per_atom_loss, spe_idx) ==
    [err |-> "",
     mean |-> FMean(scatter_mean([i \in 1..Len(per_atom_loss) |-> FMean(per_atom_loss[i])],
                                 InverseIndex(spe_idx)))]

\* N_species = ((N == N).int()).sum()
CountNotNan(N) == Len(SelectSeq(N, LAMBDA x : ~isnan(x)))

\* (per_species_loss * N).sum() / N_species
WeightedSum(per_species_loss, N) ==
    FDiv(FSum([t \in 1..Len(N) |-> FMul(per_species_loss[t], N[t])]),
         Num(CountNotNan(N)))

\* scatter(not_nan, spe_idx, dim=0) of the 2-d mask: per slot and component,
\* the number of valid entries
scatter_counts(not_nan, idx) ==
    [t \in 1..(MaxOf(idx) + 1) |-> [c \in 1..Len(not_nan[1]) |->
        IntSum([j \in 1..Len(Where(idx, t - 1)) |-> not_nan[Where(idx, t - 1)[j]][c]])]]

\* N = scatter(not_nan, spe_idx).sum(reduce_dims).reciprocal()
ReciprocalCounts(not_nan, spe_idx) ==
    [t \in 1..(MaxOf(spe_idx) + 1) |->
        FDiv(Num(1), Num(IntSum(scatter_counts(not_nan, spe_idx)[t])))]

\* lines 142-159
PerSpeciesMasked(per_atom_loss, not_nan, spe_idx) ==
    [err |-> "",
     mean |-> WeightedSum(scatter([i \in 1..Len(per_atom_loss) |-> FSum(per_atom_loss[i])],
                                  spe_idx),
                          ReciprocalCounts(not_nan, spe_idx))]

PerSpeciesLoss(func_name, ignore_nan, pred, ref, spe_idx, mean) ==
    IF ~mean
    THEN [err |-> "NotImplementedError: Cannot handle this yet"]
    ELSE IF ignore_nan /\ isnan(FMean(Flatten(ref)))
    THEN PerSpeciesMasked(MaskedLoss(func_name, pred, ref), NotNan(ref), spe_idx)
    ELSE PerSpeciesPlain(PlainLoss(func_name, pred, ref), spe_idx)

(***************************************************************************)
(* find_loss_function                                                      *)
(***************************************************************************)
UpperCase == "ABCDEFGHIJKLMNOPQRSTUVWXYZ"
LowerCase == "abcdefghijklmnopqrstuvwxyz"

RECURSIVE PositionIn(_, _, _)
PositionIn(ch, alphabet, i) ==
    IF i > Len(alphabet) THEN 0
    ELSE IF SubSeq(alphabet, i, i) = ch THEN i
    ELSE PositionIn(ch, alphabet, i + 1)

\* str.lower() of one character
LowerChar(ch) ==
    IF PositionIn(ch, UpperCase, 1) = 0 THEN ch
    ELSE SubSeq(LowerCase, PositionIn(ch, UpperCase, 1), PositionIn(ch, UpperCase, 1))

\* name.lower()
RECURSIVE lower(_)
lower(s) ==
    IF Len(s) = 0 THEN ""
    ELSE LowerChar(SubSeq(s, 1, 1)) \o lower(DropFirst(s, 1))

\* wrapper_list, in the order of its keys
WrapperKeys == <<"perspecies", "peratom">>

WrapperOf(key) == IF key = "perspecies" THEN "PerSpeciesLoss" ELSE "PerAtomLoss"

\* the loss classes of torch.nn
TorchNNLosses == {"L1Loss", "MSELoss", "SmoothL1Loss", "HuberLoss"}

\* f"{class_name}" in the message of the failed lookup
Shown(class_name) ==
    IF class_name.kind = "str" THEN class_name.s
    ELSE "<" \o class_name.kind \o " '" \o class_name.s \o "'>"

\* nequip.utils.instantiate_from_cls_name(torch.nn, class_name, ...): the
\* class is looked up in torch.nn by its name; "" when it is found, the
\* error otherwise.  Nothing that is no string is the name of a class.
instantiate_from_cls_name(class_name) ==
    IF class_name.kind = "str" /\ class_name.s \in TorchNNLosses THEN ""
    ELSE "NameError: " \o Shown(class_name) \o " type is not found in torch.nn module"

\* SimpleLoss.__init__, inherited by PerAtomLoss and PerSpeciesLoss: the
\* evaluator of class cls with its func_name and params, or the error of
\* the lookup of func_name
Construct(cls, func_name, params) ==
    IF instantiate_from_cls_name(func_name) = ""
    THEN [err |-> "", made |-> [cls |-> cls, func_name |-> func_name, params |-> params]]
    ELSE [err |-> instantiate_from_cls_name(func_name)]

\* the remainder taken from the lower-cased name
RemainderLowered(name, key) == DropFirst(lower(name), Len(key))

\* name[len(key):]
Remainder(name, key) == DropFirst(name, Len(key))

\* the loop over wrapper_list, from its i-th key, and the fall-through
RECURSIVE StringDispatch(_, _, _)
StringDispatch(name, params, i) ==
    IF i > Len(WrapperKeys) THEN Construct("SimpleLoss", Str(name), params)
    ELSE IF startswith(lower(name), WrapperKeys[i])
    THEN Construct(WrapperOf(WrapperKeys[i]), Str(Remainder(name, WrapperKeys[i])), params)
    ELSE StringDispatch(name, params, i + 1)

isclass(name) == name.kind = "class"

callable(name) == name.kind \in {"class", "function", "callable_instance"}

\* lines 194-199: the branches for a name that is no string
NonStringDispatch(name, params) ==
    IF isclass(name) THEN Construct("SimpleLoss", name, params)
    ELSE IF callable(name) THEN [err |-> "", same |-> name]
    ELSE [err |-> "NotImplementedError: Loss is not implemented"]

find_loss_function(name, params) ==
    IF isinstance(name, "str") THEN StringDispatch(name.s, params, 1)
    ELSE NonStringDispatch(name, params)

(***************************************************************************)
(* Inputs of _compute_stats: identifiers dataset_[scope]<field>_<stat>.    *)
(***************************************************************************)
MaxNames == 3

Scopes == {"", "per_species_", "per_atom_"}

Fields == {"e", "eper_atom_"}

MkName(scope, field, stat) == "dataset_" \o scope \o field \o "_" \o stat

StatNames ==
    {MkName(s, f, t) : s \in Scopes, f \in Fields, t \in {"mean", "std"}}
    \cup {"dataset_e_rms", "dataset_e_max", "e_mean"}

SeqsUpTo(S, n) == UNION {[1..k -> S] : k \in 0..n}

StatsDataset == <<20, 30>>

StatsKwargs == {<<>>, ("e" :> "prior")}

Init ==
    /\ op = "init"
    /\ args = <<>>
    /\ ret = <<>>

\* the call returns to the caller, which may call again
Return ==
    /\ op # "init"
    /\ op' = "init"
    /\ args' = <<>>
    /\ ret' = <<>>

ComputeStats ==
    /\ op = "init"
    /\ \E str_names \in SeqsUpTo(StatNames, MaxNames), kwargs \in StatsKwargs :
        /\ op' = "_compute_stats"
        /\ args' = [str_names |-> str_names, dataset |-> StatsDataset,
                    stride |-> 1, kwargs |-> kwargs]
        /\ ret' = compute_stats(str_names, StatsDataset, 1, kwargs)

NextStats == ComputeStats \/ Return

SpecStats == Init /\ [][NextStats]_vars

\* The requests of the call with field X and mode m
RequestsFor(calls, X, m) ==
    {<<c, k>> \in (1..Len(calls)) \X (1..MaxNames + 1) :
        /\ k <= Len(calls[c].fields)
        /\ calls[c].fields[k] = X
        /\ calls[c].modes[k] = m}

\* C1: when the list holds both the mean and the std identifier of a field X
\* in one scope, exactly one request (X, <scope>mean_std) reaches
\* dataset.statistics, the mean identifier gets slot 0 and the std identifier
\* slot 1 of that request's result, and the returned list has one value per
\* identifier, in input order.
C1_MeanStdOneRequest ==
    (op = "_compute_stats" /\ ret.err = "") =>
        /\ Len(ret.value) = Len(args.str_names)
        /\ \A X \in Fields, S \in Scopes :
             \A i, j \in 1..Len(args.str_names) :
                (/\ args.str_names[i] = MkName(S, X, "mean")
                 /\ args.str_names[j] = MkName(S, X, "std"))
                => /\ Cardinality(RequestsFor(ret.calls, X, S \o "mean_std")) = 1
                   /\ ret.value[i].of = <<X, S \o "mean_std", 0>>
                   /\ ret.value[j].of = <<X, S \o "mean_std", 1>>

(***************************************************************************)
(* Inputs of the rescale configurators.                                    *)
(***************************************************************************)
\* an option left out of the configuration
Absent == [kind |-> "absent"]

Option(key, choice) == IF choice = Absent THEN <<>> ELSE (key :> choice)

\* numbers just below, at and just above the threshold
NearThreshold == {RESCALE_THRESHOLD - 1, RESCALE_THRESHOLD, RESCALE_THRESHOLD + 1}

Datasets == {<<a, b>> : a \in NearThreshold, b \in NearThreshold}

Models ==
    {[irreps_out |-> ks] :
        ks \in {{TOTAL_ENERGY_KEY, PER_ATOM_ENERGY_KEY},
                {TOTAL_ENERGY_KEY, PER_ATOM_ENERGY_KEY, FORCE_KEY},
                {PER_ATOM_ENERGY_KEY, FORCE_KEY, STRESS_KEY}}}

GlobalScaleChoices ==
    {Absent, None, Str("dataset_forces_rms"), Str("dataset_total_energy_std"),
     Str("dataset_forces_max"), IntV(One), ListV(<<One>>), Dict}
    \cup {Float(x) : x \in NearThreshold}
    \cup {Tensor(<<x>>) : x \in NearThreshold}

GlobalShiftChoices ==
    {Absent, None, Str("dataset_total_energy_mean"), Str("dataset_total_energy_std"),
     Float(0), IntV(0), Dict}

GlobalTrainable == {Absent, Bool(TRUE)}

PerSpeciesScalesChoices ==
    {Absent, None, Str("dataset_forces_rms"), Str("dataset_per_species_forces_rms"),
     Str("dataset_forces_max"), IntV(One), Dict,
     ListV(<<RESCALE_THRESHOLD - 1, One>>), ListV(<<One, RESCALE_THRESHOLD>>),
     Tensor(<<RESCALE_THRESHOLD + 1, One>>)}
    \cup {Float(x) : x \in NearThreshold}

PerSpeciesShiftsChoices ==
    {Absent, None, Str("dataset_per_species_total_energy_mean"), Float(0),
     ListV(<<0, One>>), IntV(0), Dict}

\* the option as documented, and as the code spells it
UnitsChoices ==
    {<<>>,
     ("per_species_rescale_arguments_in_dataset_units" :> Bool(TRUE)),
     ("per_species_rescale_arguments_in_dataset_units" :> Bool(FALSE)),
     (UnitsOption :> Bool(TRUE)),
     (UnitsOption :> Bool(FALSE))}

TrainOnChoices == {Absent, [kind |-> "keys", keys |-> {FORCE_KEY, TOTAL_ENERGY_KEY}]}

KwargsChoices == {<<>>, ("per_species_rescale_kwargs" :> (TOTAL_ENERGY_KEY :> "prior"))}

Stride == ("dataset_statistics_stride" :> 1)

GlobalRescale ==
    /\ op = "init"
    /\ \E model \in Models, dataset \in Datasets, initialize \in BOOLEAN,
       scale \in GlobalScaleChoices, shift \in GlobalShiftChoices,
       trainable \in GlobalTrainable :
        LET config == Stride @@ Option("global_rescale_scale", scale)
                      @@ Option("global_rescale_shift", shift)
                      @@ Option("global_rescale_scale_trainable", trainable)
        IN /\ op' = "RescaleEnergyEtc"
           /\ args' = [model |-> model, config |-> config, dataset |-> dataset,
                       initialize |-> initialize]
           /\ ret' = RescaleEnergyEtc(model, config, dataset, initialize)

SpeciesRescale ==
    /\ op = "init"
    /\ \E dataset \in Datasets, initialize \in BOOLEAN,
       scales \in PerSpeciesScalesChoices, shifts \in PerSpeciesShiftsChoices,
       units \in UnitsChoices, train_on \in TrainOnChoices, kwargs \in KwargsChoices :
        LET model == [irreps_out |-> {TOTAL_ENERGY_KEY, PER_ATOM_ENERGY_KEY, FORCE_KEY}]
            config == Stride @@ Option("per_species_rescale_scales", scales)
                      @@ Option("per_species_rescale_shifts", shifts)
                      @@ units @@ Option("train_on_keys", train_on) @@ kwargs
        IN /\ op' = "PerSpeciesRescale"
           /\ args' = [model |-> model, config |-> config, dataset |-> dataset,
                       initialize |-> initialize]
           /\ ret' = PerSpeciesRescale(model, config, dataset, initialize)

NextRescale == GlobalRescale \/ SpeciesRescale \/ Return

SpecRescale == Init /\ [][NextRescale]_vars

(***************************************************************************)
(* Properties of the rescale configurators.                                *)
(***************************************************************************)
InitializedRun == op \in {"RescaleEnergyEtc", "PerSpeciesRescale"} /\ args.initialize

LowScaleErrors ==
    {"ValueError: Global energy scaling was very low",
     "ValueError: Per species energy scaling was very low"}

InvalidKindErrors == {"ValueError: Invalid global scale", "ValueError: Invalid value"}

\* the scale and shift the run was configured with, defaults applied
ConfiguredScale ==
    IF op = "RescaleEnergyEtc"
    THEN get(args.config, "global_rescale_scale", GlobalDefaultScale(args.model))
    ELSE get(args.config, "per_species_rescale_scales", PerSpeciesDefaultScales(args.config))

ConfiguredShift ==
    IF op = "RescaleEnergyEtc"
    THEN get(args.config, "global_rescale_shift", None)
    ELSE get(args.config, "per_species_rescale_shifts", PerSpeciesDefaultShifts)

\* the scale and shift of the specification the run emitted
EmittedScale(r) == IF "rescale" \in DOMAIN r THEN r.rescale.scale_by ELSE r.inserted.params.scales

EmittedShift(r) == IF "rescale" \in DOMAIN r THEN r.rescale.shift_by ELSE r.inserted.params.shifts

NothingBuilt(r) == "rescale" \notin DOMAIN r /\ "inserted" \notin DOMAIN r /\ "model" \notin DOMAIN r

\* C2: with initialize true a resolved scale below 1e-6 (the minimum over
\* species for PerSpeciesRescale) fails the configuration with the low-scale
\* error and builds nothing; a resolved scale at or above 1e-6 succeeds.
C2_ScaleThreshold ==
    InitializedRun =>
        /\ ret.err \in LowScaleErrors =>
              /\ MinOf(ret.offending.v) < RESCALE_THRESHOLD
              /\ NothingBuilt(ret)
        /\ (ret.err = "" /\ EmittedScale(ret) # None) =>
              MinOf(EmittedScale(ret).v) >= RESCALE_THRESHOLD
        /\ (ConfiguredScale.kind \in {"float", "Tensor"}
            /\ ret.err \in LowScaleErrors \cup {""}) =>
              (ret.err = "" <=> MinOf(ConfiguredScale.v) >= RESCALE_THRESHOLD)

\* a per-species scale list with one entry below the threshold was rejected
C2_Witness ==
    /\ op = "PerSpeciesRescale"
    /\ args.initialize
    /\ ret.err \in LowScaleErrors
    /\ ret.offending.v = <<RESCALE_THRESHOLD - 1, One>>

\* an emitted value against the configured one
PassedThrough(configured, emitted) ==
    IF configured.kind = "str" THEN "of" \in DOMAIN emitted
    ELSE IF configured = None THEN emitted = None
    ELSE emitted # None /\ emitted.v = configured.v

\* C3 (as claimed): every configured scale/shift is handled by its kind: a
\* string is resolved by the backend, a number (float or int), an array (list
\* or tensor) or None passes through unchanged, any other kind is a
\* configuration error.
C3_KindsAsClaimed ==
    InitializedRun =>
        /\ ret.err \in InvalidKindErrors <=>
              \E value \in {ConfiguredScale, ConfiguredShift} :
                  value.kind \notin {"str", "float", "int", "list", "Tensor", "None"}
        /\ ret.err = "" =>
              /\ PassedThrough(ConfiguredScale, EmittedScale(ret))
              /\ PassedThrough(ConfiguredShift, EmittedShift(ret))

\* the option as the error message of the unit check names it
DocumentedUnitsOption == "per_species_rescale_arguments_in_dataset_units"

DeclaredInDatasetUnits(config) ==
    DocumentedUnitsOption \in DOMAIN config /\ config[DocumentedUnitsOption].b

StrCount == Len(StrNames(<<ConfiguredScale, ConfiguredShift>>))

\* C4 (as claimed): in PerSpeciesRescale with exactly one of scales/shifts a
\* statistic identifier, the documented option
\* per_species_rescale_arguments_in_dataset_units passes the unit check when
\* true, and its absence or falsity fails the run before any backend call or
\* insertion; with both identifiers arguments_in_dataset_units is true.
C4_UnitsAsClaimed ==
    (/\ op = "PerSpeciesRescale"
     /\ args.initialize
     /\ ret.err \notin InvalidKindErrors) =>
        /\ StrCount = 1 =>
              IF DeclaredInDatasetUnits(args.config)
              THEN ret.err \notin {"KeyError",
                       "AssertionError: set per_species_rescale_arguments_in_dataset_units"}
              ELSE ret.err # "" /\ ret.calls = <<>> /\ NothingBuilt(ret)
        /\ (StrCount = 2 /\ ret.err = "") =>
              ret.inserted.params.arguments_in_dataset_units = Bool(TRUE)

\* the initialize=false run on the arguments of the run just made
DummyRun ==
    IF op = "RescaleEnergyEtc"
    THEN RescaleEnergyEtc(args.model, args.config, args.dataset, FALSE)
    ELSE PerSpeciesRescale(args.model, args.config, args.dataset, FALSE)

Shape(r) ==
    IF "rescale" \in DOMAIN r THEN DOMAIN r.rescale ELSE DOMAIN r.inserted.params

\* C5 (as claimed): where the initialize=true run succeeds, the
\* initialize=false run of the same configurator on the same configuration
\* calls no backend and emits a specification of the same shape: the same
\* keys, a scale exactly when the initialize=true run has one, a shift exactly
\* when it has one.
C5_ShapeAsClaimed ==
    (InitializedRun /\ ret.err = "") =>
        /\ DummyRun.err = ""
        /\ DummyRun.calls = <<>>
        /\ Shape(DummyRun) = Shape(ret)
        /\ EmittedScale(DummyRun) = None <=> EmittedScale(ret) = None
        /\ EmittedShift(DummyRun) = None <=> EmittedShift(ret) = None

(***************************************************************************)
(* Inputs of the loss evaluators: batches of small tensors.                *)
(***************************************************************************)
MaxAtoms == 3

MaxGraphs == 2

\* <<prediction, reference>> of one entry
Entries == {<<Num(1), Num(0)>>, <<Num(0), Num(2)>>, <<Num(1), NaN>>}

\* rows of one and of two components
RowChoices ==
    {{<<e>> : e \in Entries},
     {<<<<Num(1), Num(0)>>, <<Num(1), NaN>>>>,
      <<<<Num(0), Num(2)>>, <<Num(0), Num(2)>>>>,
      <<<<Num(1), NaN>>, <<Num(1), NaN>>>>}}

PredOf(rows) == [i \in 1..Len(rows) |-> [c \in 1..Len(rows[i]) |-> rows[i][c][1]]]

RefOf(rows) == [i \in 1..Len(rows) |-> [c \in 1..Len(rows[i]) |-> rows[i][c][2]]]

FuncNames == {"MSELoss", "L1Loss"}

SpeciesLabels == {0, 1, 3}

\* the graph index of every atom, for graphs of counts[1], counts[2], ... atoms
RECURSIVE BatchOf(_, _)
BatchOf(counts, g) ==
    IF g > Len(counts) THEN <<>>
    ELSE [i \in 1..counts[g] |-> g - 1] \o BatchOf(counts, g + 1)

CallPerAtomLoss ==
    /\ op = "init"
    /\ \E G \in 1..MaxGraphs, Rows \in RowChoices :
       \E counts \in [1..G -> 1..MaxAtoms], rows \in [1..G -> Rows],
          func_name \in FuncNames, ignore_nan \in BOOLEAN, mean \in BOOLEAN,
          key \in {TOTAL_ENERGY_KEY, FORCE_KEY} :
            /\ op' = "PerAtomLoss"
            /\ args' = [func_name |-> func_name, ignore_nan |-> ignore_nan,
                        pred |-> PredOf(rows), ref |-> RefOf(rows),
                        batch |-> BatchOf(counts, 1), key |-> key, mean |-> mean]
            /\ ret' = PerAtomLoss(func_name, ignore_nan, PredOf(rows), RefOf(rows),
                                  BatchOf(counts, 1), key, mean)

CallPerSpeciesLoss ==
    /\ op = "init"
    /\ \E n \in 1..MaxAtoms, Rows \in RowChoices :
       \E species \in [1..n -> SpeciesLabels], rows \in [1..n -> Rows],
          func_name \in FuncNames, ignore_nan \in BOOLEAN, mean \in BOOLEAN :
            /\ op' = "PerSpeciesLoss"
            /\ args' = [func_name |-> func_name, ignore_nan |-> ignore_nan,
                        pred |-> PredOf(rows), ref |-> RefOf(rows),
                        species |-> species, mean |-> mean]
            /\ ret' = PerSpeciesLoss(func_name, ignore_nan, PredOf(rows), RefOf(rows),
                                     species, mean)

NextLoss == CallPerAtomLoss \/ CallPerSpeciesLoss \/ Return

SpecLoss == Init /\ [][NextLoss]_vars

(***************************************************************************)
(* Properties of the loss evaluators, stated on the arguments of the call. *)
(***************************************************************************)
RECURSIVE SumOf(_, _)
SumOf(f, S) ==
    IF S = {} THEN Num(0)
    ELSE LET x == CHOOSE y \in S : TRUE
         IN FAdd(f[x], SumOf(f, S \ {x}))

SumOver(S, F(_)) == SumOf([x \in S |-> F(x)], S)

Atoms == 1..Len(args.ref)

Components == 1..Len(args.ref[1])

HasNanRef == \E i \in Atoms, c \in Components : isnan(args.ref[i][c])

Masked == args.ignore_nan /\ HasNanRef

\* the loss of one entry, 0 where masking drops it
EntryLoss(i, c) ==
    IF Masked /\ isnan(args.ref[i][c]) THEN Num(0)
    ELSE Elementwise(args.func_name, args.pred[i][c], args.ref[i][c])

ValidEntries(S) ==
    {<<i, c>> \in S \X Components : ~isnan(args.ref[i][c])}

\* the groups of atoms by species and their masked means
AtomsOfSpecies(l) == {i \in Atoms : args.species[i] = l}

SpeciesWithValid ==
    {l \in {args.species[i] : i \in Atoms} : ValidEntries(AtomsOfSpecies(l)) # {}}

MaskedGroupMean(l) ==
    FDiv(SumOver(AtomsOfSpecies(l) \X Components, LAMBDA e : EntryLoss(e[1], e[2])),
         Num(Cardinality(ValidEntries(AtomsOfSpecies(l)))))

\* C6 (as claimed): under NaN masking a species slot without a valid entry
\* counts neither in the sum nor in the denominator: the result is the mean,
\* over the species with a valid entry, of (masked loss of the group / valid
\* entries of the group), and it is finite when such a species exists.
C6_EmptySpeciesExcluded ==
    (op = "PerSpeciesLoss" /\ args.mean /\ Masked /\ SpeciesWithValid # {}) =>
        /\ ret.mean.k = "fin"
        /\ ret.mean = FDiv(SumOver(SpeciesWithValid, MaskedGroupMean),
                           Num(Cardinality(SpeciesWithValid)))

\* the mean loss of an atom and of a group; the renamings of the labels
AtomLoss(i) ==
    FDiv(SumOver(Components, LAMBDA c : EntryLoss(i, c)), Num(Cardinality(Components)))

GroupMean(l) ==
    FDiv(SumOver(AtomsOfSpecies(l), AtomLoss), Num(Cardinality(AtomsOfSpecies(l))))

RelabelTargets == {0, 5, 9}

Relabelings ==
    {f \in [SpeciesLabels -> RelabelTargets] :
        \A a, b \in SpeciesLabels : a # b => f[a] # f[b]}

\* C7: without NaN masking the result is the unweighted mean, over the
\* distinct labels of the batch, of the mean per-atom loss of the atoms with
\* that label, and it is the same under every renaming of the labels.
C7_MeanOverSpecies ==
    (op = "PerSpeciesLoss" /\ args.mean /\ ~Masked) =>
        /\ ret.mean = FDiv(SumOver({args.species[i] : i \in Atoms}, GroupMean),
                           Num(Cardinality({args.species[i] : i \in Atoms})))
        /\ \A f \in Relabelings :
              PerSpeciesLoss(args.func_name, args.ignore_nan, args.pred, args.ref,
                             [i \in Atoms |-> f[args.species[i]]], TRUE) = ret

\* labels [0, 3, 3], where the mean over species differs from the mean over atoms
C7_Witness ==
    /\ op = "PerSpeciesLoss"
    /\ args.mean
    /\ ~Masked
    /\ args.species = <<0, 3, 3>>
    /\ ret.mean.k = "fin"
    /\ ret.mean # FDiv(SumOver(Atoms, AtomLoss), Num(Cardinality(Atoms)))

\* the atom count of a graph and the division it calls for
AtomsOfGraph(g) == Cardinality({i \in 1..Len(args.batch) : args.batch[i] = g - 1})

Divisor(g) ==
    IF args.func_name = "MSELoss" THEN AtomsOfGraph(g) * AtomsOfGraph(g)
    ELSE AtomsOfGraph(g)

PerAtomEntry(g, c) == FDiv(EntryLoss(g, c), Num(Divisor(g)))

\* C8: on a graph-level key PerAtomLoss divides the loss of every entry of
\* graph g by N_g squared for MSELoss and by N_g for any other function, in
\* the masked and in the unmasked path; the mean divides by the number of
\* non-NaN reference entries when masked, of all entries otherwise.  On any
\* other key it raises and computes nothing.
C8_PerAtomDivision ==
    op = "PerAtomLoss" =>
        IF args.key \notin GRAPH_FIELDS
        THEN ret.err # "" /\ DOMAIN ret = {"err"}
        ELSE /\ ret.err = ""
             /\ ~args.mean =>
                   /\ Len(ret.loss) = Len(args.pred)
                   /\ \A g \in Atoms, c \in Components :
                         ret.loss[g][c] = PerAtomEntry(g, c)
             /\ args.mean =>
                   ret.mean =
                     FDiv(SumOver(Atoms \X Components,
                                  LAMBDA e : PerAtomEntry(e[1], e[2])),
                          Num(IF Masked
                              THEN Cardinality(ValidEntries(Atoms))
                              ELSE Cardinality(Atoms \X Components)))

\* graphs of 2 and 3 atoms under MSELoss: the second graph's loss 4 became 4/9
C8_Witness ==
    /\ op = "PerAtomLoss"
    /\ args.key = TOTAL_ENERGY_KEY
    /\ args.func_name = "MSELoss"
    /\ ~args.mean
    /\ args.batch = <<0, 0, 1, 1, 1>>
    /\ ret.loss[2][1] = Fin(4, 9)

(***************************************************************************)
(* Inputs of find_loss_function.                                           *)
(***************************************************************************)
SpeciesForms == {"PerSpecies", "perspecies", "PERSPECIES", "pErSpEcIeS"}

AtomForms == {"PerAtom", "peratom", "PERATOM", "perAtom"}

OtherForms == {"", "Per", "PerSpecie", "XPerAtom", "Per_Atom", "Species"}

BaseNames == {"MSELoss", "MAELoss", "L1Loss", "mseloss", "", "PerAtomMSELoss"}

LossNames == {Str(p \o b) : p \in SpeciesForms \cup AtomForms \cup OtherForms, b \in BaseNames}

\* arguments that are no strings: s names the object
Objects ==
    {[kind |-> k, s |-> "obj"] :
        k \in {"class", "function", "callable_instance", "int", "None", "dict"}}

ParamChoices == {<<>>, ("ignore_nan" :> TRUE)}

FindLossFunction ==
    /\ op = "init"
    /\ \E name \in LossNames \cup Objects, params \in ParamChoices :
        /\ op' = "find_loss_function"
        /\ args' = [name |-> name, params |-> params]
        /\ ret' = find_loss_function(name, params)

NextFactory == FindLossFunction \/ Return

SpecFactory == Init /\ [][NextFactory]_vars

\* the front of the name is the key, cases aside
FrontIs(name, key) ==
    Len(name) >= Len(key) /\ lower(SubSeq(name, 1, Len(key))) = key

Outcome(cls, identifier) ==
    IF identifier \in {"L1Loss", "MSELoss", "SmoothL1Loss", "HuberLoss"}
    THEN [err |-> "",
          made |-> [cls |-> cls, func_name |-> Str(identifier), params |-> args.params]]
    ELSE [err |-> "NameError: " \o identifier \o " type is not found in torch.nn module"]

C10_CallablePassThrough ==
    (op = "find_loss_function" /\ args.name.kind # "str") =>
        IF args.name.kind \in {"class", "function", "callable_instance"}
        THEN ret = [err |-> "", same |-> args.name]
        ELSE ret.err = "NotImplementedError: Loss is not implemented"

====
